---- MODULE Spec2Model ----
(***************************************************************************)
(* Model of the DisplayController of src/src/main.py: the two state maps   *)
(* (browsers, chrome_processes), the re-entrancy flag _cleaning_up, and    *)
(* the operations start_chrome_instances, cleanup, navigate_to_url,        *)
(* refresh_display, get_current_url, the /start, /stop and /status routes  *)
(* and the signal handler.  Every operation is cut into the steps between  *)
(* which another Python thread (or the signal handler) can run.            *)
(*                                                                         *)
(* The external collaborators (the OS process table, the profile           *)
(* directories, the browsers' remote-debugging endpoints) are state of the *)
(* model; each of their answers is a nondeterministic choice.              *)
(***************************************************************************)
EXTENDS Integers, Sequences, FiniteSets, TLC

\* ------------------------------------------------------------------------
\* Bounds of the model
MaxCalls == 3          \* requests in one behaviour without a signal
MaxSigCalls == 2       \* requests in one behaviour with a shutdown signal

\* ------------------------------------------------------------------------
\* Program constants
display_ids == <<1, 2>>               \* main.py:159
max_retries == 10                     \* main.py:234

Displays == {display_ids[i] : i \in 1..Len(display_ids)}
ArgIds == Displays \cup {3}           \* <int:display_id> of a request
Blank == "about:blank"                \* main.py:199
Urls == {"http://x"}                  \* the url of a goto request

Requests == {"t1", "t2"}              \* request threads of the HTTP layer
Main == "main"                        \* the thread that runs signal_handler
Threads == Requests \cup {Main}

None == <<>>

\* ------------------------------------------------------------------------
\* Text.  A Python str is a sequence of one-character strings.
Minus == "-"
Plus == "+"
Space == " "
Newline == "\n"
DigitChars == <<"0", "1", "2", "3", "4", "5", "6", "7", "8", "9">>
IsDigit(c) == \E j \in 1..Len(DigitChars) : DigitChars[j] = c
DigitValue(c) == (CHOOSE j \in 1..Len(DigitChars) : DigitChars[j] = c) - 1

\* str(n) of a natural number n
RECURSIVE str(_)
str(n) == IF n < 10 THEN <<DigitChars[n + 1]>>
          ELSE Append(str(n \div 10), DigitChars[(n % 10) + 1])

\* sep.join(pieces)
RECURSIVE join(_, _)
join(sep, pieces) ==
  IF pieces = <<>> THEN <<>>
  ELSE IF Len(pieces) = 1 THEN pieces[1]
  ELSE pieces[1] \o <<sep>> \o join(sep, Tail(pieces))

\* s.split(sep): the pieces between the separators, empty pieces included
RECURSIVE SplitFrom(_, _, _, _)
SplitFrom(s, sep, piece, done) ==
  IF s = <<>> THEN Append(done, piece)
  ELSE IF Head(s) = sep
    THEN SplitFrom(Tail(s), sep, <<>>, Append(done, piece))
    ELSE SplitFrom(Tail(s), sep, Append(piece, Head(s)), done)

split(s, sep) == SplitFrom(s, sep, <<>>, <<>>)

\* s.split(): the maximal runs of non-blank characters (main.py:66)
words(s) == SelectSeq(split(s, Space), LAMBDA piece : piece # <<>>)

\* w in s, for strings
contains(s, w) ==
  \E j \in 0..(Len(s) - Len(w)) : SubSeq(s, j + 1, j + Len(w)) = w

\* x in l, for a list l
member(l, x) == \E j \in 1..Len(l) : l[j] = x

\* int(s): an optional sign and at least one digit, anything else is a
\* ValueError
Unsigned(s) == IF s # <<>> /\ Head(s) \in {Minus, Plus} THEN Tail(s) ELSE s
IsInt(s) ==
  /\ Unsigned(s) # <<>>
  /\ \A j \in 1..Len(Unsigned(s)) : IsDigit(Unsigned(s)[j])

RECURSIVE Decimal(_, _)
Decimal(s, n) ==
  IF s = <<>> THEN n ELSE Decimal(Tail(s), 10 * n + DigitValue(Head(s)))

int(s) == IF s # <<>> /\ Head(s) = Minus THEN 0 - Decimal(Unsigned(s), 0)
          ELSE Decimal(Unsigned(s), 0)

\* ------------------------------------------------------------------------
\* Monitor layout (main.py:56-113)
Monitor(name, width, height, x, y) ==
  [name |-> name, width |-> width, height |-> height, x |-> x, y |-> y]

DefaultLayout ==                          \* main.py:97-100
  << Monitor(<<"default-1">>, 1920, 1080, 0, 0),
     Monitor(<<"default-2">>, 1920, 1080, 1920, 0) >>
FallbackLayout ==                         \* main.py:105-108
  << Monitor(<<"fallback-1">>, 1920, 1080, 0, 0),
     Monitor(<<"fallback-2">>, 1920, 1080, 1920, 0) >>

Connected == <<"c", "o", "n", "n", "e", "c", "t", "e", "d">>
Primary == <<"p", "r", "i", "m", "a", "r", "y">>

\* What one line of the tool's output does to the loop of main.py:63-93:
\* nothing ("skip"), one more monitor ("monitor"), or an IndexError that
\* leaves the loop ("raise", parts[3] of a three-word line).
Skip == [kind |-> "skip"]
ParseGeometry(name, geometry) ==                      \* main.py:75-93
  LET res_pos == split(geometry, Plus)
      sizes == split(res_pos[1], "x")
      offsetsOk == /\ Len(res_pos) > 1 => IsInt(res_pos[2])
                   /\ Len(res_pos) > 2 => IsInt(res_pos[3])
  IN IF offsetsOk /\ Len(sizes) = 2 /\ IsInt(sizes[1]) /\ IsInt(sizes[2])
       THEN [kind |-> "monitor",
             m |-> Monitor(name, int(sizes[1]), int(sizes[2]),
                           IF Len(res_pos) > 1 THEN int(res_pos[2]) ELSE 0,
                           IF Len(res_pos) > 2 THEN int(res_pos[3]) ELSE 0)]
       ELSE Skip

ParseLine(line) ==                                    \* main.py:64-74
  IF ~(contains(line, Connected) /\ contains(line, <<Plus>>)) THEN Skip
  ELSE LET parts == words(line) IN
    IF Len(parts) < 3 THEN Skip
    ELSE IF member(parts, Primary) /\ Len(parts) < 4 THEN [kind |-> "raise"]
    ELSE LET geometry == IF member(parts, Primary) THEN parts[4] ELSE parts[3]
         IN IF contains(geometry, <<"x">>) /\ contains(geometry, <<Plus>>)
              THEN ParseGeometry(parts[1], geometry)
              ELSE Skip

RECURSIVE ParseLines(_, _)
ParseLines(lines, monitors) ==
  IF lines = <<>> THEN [raised |-> FALSE, monitors |-> monitors]
  ELSE LET one == ParseLine(Head(lines)) IN
    IF one.kind = "raise" THEN [raised |-> TRUE, monitors |-> monitors]
    ELSE ParseLines(Tail(lines),
                    IF one.kind = "monitor" THEN Append(monitors, one.m)
                    ELSE monitors)

\* The outcome of subprocess.run(['xrandr'], timeout=10): it raises (the
\* tool is absent, or it ran out of time) or it returns a code and a text.
ToolAbsent == [raises |-> "FileNotFoundError"]
ToolTimesOut == [raises |-> "TimeoutExpired"]
ToolReturns(code, text) == [raises |-> "", returncode |-> code, stdout |-> text]

_get_monitor_layout(xrandr) ==
  IF xrandr.raises # "" THEN FallbackLayout
  ELSE LET parsed == IF xrandr.returncode = 0
                       THEN ParseLines(split(xrandr.stdout, Newline), <<>>)
                       ELSE [raised |-> FALSE, monitors |-> <<>>]
       IN IF parsed.raised THEN FallbackLayout
          ELSE IF parsed.monitors = <<>> THEN DefaultLayout
          ELSE parsed.monitors

\* ------------------------------------------------------------------------
\* Launch plan (main.py:115-131, 150-200)
ports == <<9222, 9223>>               \* main.py:158

_get_available_displays(force_displays, xrandr) ==
  IF force_displays # <<>> THEN force_displays
  ELSE IF Len(_get_monitor_layout(xrandr)) >= 2 THEN <<":0", ":0">>
  ELSE <<":0">>

\* A plan that puts every window on the first monitor
TargetOnFirstMonitor(j, displays, monitors) ==
  [display_id |-> display_ids[j],
   display |-> IF j <= Len(displays) THEN displays[j] ELSE displays[1],
   port |-> ports[j],
   user_data_dir |-> <<"/tmp/chrome_display", display_ids[j]>>,
   x |-> monitors[1].x, y |-> monitors[1].y,
   width |-> monitors[1].width, height |-> monitors[1].height]

\* The arguments of the j-th Popen (j = i + 1 for the loop index i)
Target(j, displays, monitors) ==
  LET display == IF j <= Len(displays) THEN displays[j] ELSE displays[1]
      window == IF j <= Len(monitors)
                  THEN [x |-> monitors[j].x, y |-> monitors[j].y,
                        width |-> monitors[j].width,
                        height |-> monitors[j].height]
                  ELSE [x |-> (j - 1) * 1920, y |-> 0,
                        width |-> 1920, height |-> 1080]
  IN [display_id |-> display_ids[j],
      display |-> display,
      port |-> ports[j],
      user_data_dir |-> <<"/tmp/chrome_display", display_ids[j]>>,
      x |-> window.x, y |-> window.y,
      width |-> window.width, height |-> window.height]

Targets(displays, monitors) ==
  [j \in 1..Len(display_ids) |-> Target(j, displays, monitors)]

VARIABLES
  controller,        \* global controller is not None
  browsers,          \* self.browsers: insertion-ordered dict, seq of [k, v]
  chrome_processes,  \* self.chrome_processes: same representation
  cleaning_up,       \* self._cleaning_up (absent attribute = FALSE)
  alive,             \* OS: the browser processes that are running
  dirs,              \* OS: per display, its profile directory (see Removed)
  page,              \* browser: per display, the shown and requested url
  closed,            \* sessions of the map on which tab.stop() has been called
  exited,            \* os._exit(0) has been called
  calls,             \* number of operations begun so far
  pc,                \* per thread: position in the code
  ret,               \* per thread: who called cleanup ("stop","start","signal")
  gen,               \* per thread: number of the call it is running
  idx,               \* per thread: loop index / dict iterator position
  iterLen,           \* per thread: dict size recorded by the dict iterator
  tabs,              \* per thread: local variable tabs (main.py:237)
  cur,               \* per thread: the item the cleanup loop is working on
  arg,               \* per thread: [d, url] arguments of the request
  result,            \* per thread: what the last operation returned
  report,            \* per thread: the display statuses /status computed
  spawnRes,          \* per thread: outcome of each Popen of its last start call
  connRes,           \* per thread: outcome of each connect of that call
  clean,             \* per thread: its start call found both maps empty
  starts,            \* number of start_chrome_instances calls begun
  termAttempted,     \* history: processes cleanup signalled or found exited
  signalAt,          \* history: the signal came during a stop request, and
                     \* no start has run since
  stoppedDuring,     \* history: the number of the start call that was in
                     \* progress when a stop request finished its teardown
  log,               \* history, per thread: the events of its call, in order
  sent,              \* history, per thread: the signals it has sent to the
                     \* process its cleanup loop is working on
  config,            \* how the program was started, and what xrandr answers
  launch,            \* the monitors and the launch targets of the last start
  poll               \* one connect: the endpoint's answers and the outcome

shared == <<controller, browsers, chrome_processes, cleaning_up>>
os     == <<alive, dirs, page, closed, exited>>
locals == <<pc, ret, gen, idx, iterLen, tabs, cur, arg, result, report,
            spawnRes, connRes, clean>>
hist   == <<starts, termAttempted, signalAt, stoppedDuring>>
trace  == <<log, sent>>
pure   == <<config, launch, poll>>
vars   == <<shared, os, calls, locals, hist, trace, pure>>

\* ------------------------------------------------------------------------
\* Python dict with insertion order: a sequence of [k |-> key, v |-> value]
Has(m, k) == \E j \in 1..Len(m) : m[j].k = k
Get(m, k) == m[CHOOSE j \in 1..Len(m) : m[j].k = k].v
Put(m, k, v) ==
  IF Has(m, k)
  THEN [j \in 1..Len(m) |-> IF m[j].k = k THEN [k |-> k, v |-> v] ELSE m[j]]
  ELSE Append(m, [k |-> k, v |-> v])
Keys(m) == {m[j].k : j \in 1..Len(m)}
Vals(m) == {m[j].v : j \in 1..Len(m)}

\* A process is <<display, number of the start call that spawned it>>;
\* a session (pychrome tab) records the display whose port it was listed on,
\* the start call that claimed it and the process that serves it.
Proc(d, g) == <<d, g>>
Tab(d, g, p) == [d |-> d, g |-> g, p |-> p]

NoResult == [op |-> "none", ok |-> FALSE, msg |-> "", cmd |-> FALSE, url |-> ""]
Result(op, ok, msg, cmd, url) ==
  [op |-> op, ok |-> ok, msg |-> msg, cmd |-> cmd, url |-> url]
NoReport == [d \in Displays |-> [status |-> "none", had |-> FALSE, probe |-> "none"]]
NoOutcome == [d \in Displays |-> "none"]
FreshPage == [cur |-> Blank, req |-> Blank]

\* A profile directory is "absent", "present" (a browser was started on it
\* and no rm -rf has been run on it since) or "kept" (rm -rf was run on it
\* and did not finish).
Removed == [d \in Displays |-> "absent"]
Kept == [d \in Displays |-> IF dirs[d] = "absent" THEN "absent" ELSE "kept"]

\* Nothing is planned before the first start (main.py:150-159)
NoLaunch ==
  [stage |-> "args", force_displays |-> None, positioning_mode |-> "",
   manual_positions |-> None, displays |-> None, monitors |-> None,
   targets |-> None]

\* The controller that the /start route creates (main.py:382) on a host
\* without the xrandr tool
ApiDisplays == <<":0.0", ":0.1">>
ApiConfig == [args |-> None, xrandr |-> ToolAbsent]

Idle ==
  /\ controller \in BOOLEAN
  /\ browsers = <<>>
  /\ chrome_processes = <<>>
  /\ cleaning_up = FALSE
  /\ alive = {}
  /\ dirs = [d \in Displays |-> "absent"]
  /\ page = [d \in Displays |-> FreshPage]
  /\ closed = {}
  /\ exited = FALSE
  /\ calls = 0
  /\ pc = [t \in Threads |-> "idle"]
  /\ ret = [t \in Threads |-> "none"]
  /\ gen = [t \in Threads |-> 0]
  /\ idx = [t \in Threads |-> 0]
  /\ iterLen = [t \in Threads |-> 0]
  /\ tabs = [t \in Threads |-> None]
  /\ cur = [t \in Threads |-> None]
  /\ arg = [t \in Threads |-> [d |-> 0, url |-> ""]]
  /\ result = [t \in Threads |-> NoResult]
  /\ report = [t \in Threads |-> NoReport]
  /\ spawnRes = [t \in Threads |-> NoOutcome]
  /\ connRes = [t \in Threads |-> NoOutcome]
  /\ clean = [t \in Threads |-> FALSE]
  /\ starts = 0
  /\ termAttempted = {}
  /\ signalAt = FALSE
  /\ stoppedDuring = 0
  /\ log = [t \in Threads |-> <<>>]
  /\ sent = [t \in Threads |-> <<>>]

Init ==
  /\ Idle
  /\ config = ApiConfig
  /\ launch = NoLaunch
  /\ poll = None

\* A thread takes a new request: the locals of its previous one are dropped.
CanBegin(t) == pc[t] = "idle" /\ ~exited /\ calls < MaxCalls
Begin(t, where, d, url, res) ==
  /\ calls' = calls + 1
  /\ pc' = [pc EXCEPT ![t] = where]
  /\ idx' = [idx EXCEPT ![t] = 0]
  /\ iterLen' = [iterLen EXCEPT ![t] = 0]
  /\ tabs' = [tabs EXCEPT ![t] = None]
  /\ cur' = [cur EXCEPT ![t] = None]
  /\ arg' = [arg EXCEPT ![t] = [d |-> d, url |-> url]]
  /\ result' = [result EXCEPT ![t] = res]
  /\ report' = [report EXCEPT ![t] = NoReport]
  /\ log' = [log EXCEPT ![t] = <<>>]
  /\ sent' = [sent EXCEPT ![t] = <<>>]

\* The history of a call: an event is what was done and, where there is one,
\* the display it was done for.
Event(e, d) == [e |-> e, d |-> d]
Logged(t, ev) == log' = [log EXCEPT ![t] = Append(@, ev)]

Goto(t, where) == pc' = [pc EXCEPT ![t] = where]
At(t, where) == pc[t] = where /\ ~exited
Return(t, r) == pc' = [pc EXCEPT ![t] = "idle"] /\ result' = [result EXCEPT ![t] = r]

\* ------------------------------------------------------------------------
\* POST /start (main.py:375-386) and start_chrome_instances (main.py:133-275)

\* main.py:376-383: the route creates the controller when there is none and
\* calls start_chrome_instances.
start_displays(t) ==
  /\ CanBegin(t)
  /\ Begin(t, "s_pkill", 0, "", NoResult)
  /\ controller' = TRUE
  /\ starts' = starts + 1
  /\ gen' = [gen EXCEPT ![t] = starts + 1]
  /\ spawnRes' = [spawnRes EXCEPT ![t] = NoOutcome]
  /\ connRes' = [connRes EXCEPT ![t] = NoOutcome]
  /\ clean' = [clean EXCEPT ![t] = browsers = <<>> /\ chrome_processes = <<>>]
  /\ signalAt' = FALSE
  /\ stoppedDuring' = 0
  /\ UNCHANGED <<browsers, chrome_processes, cleaning_up, os, ret,
                 termAttempted, pure>>

\* main.py:136-139: pkill -f <executable>, then the settle delay.  check=False
\* ignores pkill's exit status; a missing pkill raises.  The browsers end on
\* the SIGTERM, or they all ignore it.
Signalled(procs) == {{}, procs}

StartKillOld(t) ==
  /\ At(t, "s_pkill")
  /\ \/ /\ \E survivors \in Signalled(alive) : alive' = survivors
        /\ Logged(t, Event("kill_old", 0))
        /\ Goto(t, "s_rmdirs")
     \/ /\ alive' = alive
        /\ Goto(t, "s_except")
        /\ UNCHANGED log
  /\ UNCHANGED <<shared, dirs, page, closed, exited, calls, ret, gen, idx,
                 iterLen, tabs, cur, arg, result, report, spawnRes,
                 connRes, clean, hist, pure, sent>>

\* main.py:142-159: the displays, rm -rf of both profile directories, the
\* monitor layout; the spawn loop starts at index 0.
\* Mutant: only the profile directory of the first display is deleted.
StartRemoveFirstProfile(t) ==
  /\ At(t, "s_rmdirs")
  /\ dirs' = [dirs EXCEPT ![display_ids[1]] = "absent"]
  /\ launch' =
       [NoLaunch EXCEPT
          !.stage = "planned",
          !.force_displays = ApiDisplays,
          !.displays = _get_available_displays(ApiDisplays, config.xrandr),
          !.monitors = _get_monitor_layout(config.xrandr),
          !.targets = Targets(_get_available_displays(ApiDisplays,
                                                      config.xrandr),
                              _get_monitor_layout(config.xrandr))]
  /\ idx' = [idx EXCEPT ![t] = 1]
  /\ Goto(t, "s_spawn")
  /\ Logged(t, Event("rm_profile", display_ids[1]))
  /\ UNCHANGED <<shared, alive, page, closed, exited, calls, ret, gen,
                 iterLen, tabs, cur, arg, result, report, spawnRes,
                 connRes, clean, hist, config, poll, sent>>

StartRemoveProfiles(t) ==
  /\ At(t, "s_rmdirs")
  /\ dirs' = Removed
  /\ launch' =
       [NoLaunch EXCEPT
          !.stage = "planned",
          !.force_displays = ApiDisplays,
          !.displays = _get_available_displays(ApiDisplays, config.xrandr),
          !.monitors = _get_monitor_layout(config.xrandr),
          !.targets = Targets(_get_available_displays(ApiDisplays,
                                                      config.xrandr),
                              _get_monitor_layout(config.xrandr))]
  /\ idx' = [idx EXCEPT ![t] = 1]
  /\ Goto(t, "s_spawn")
  /\ log' = [log EXCEPT ![t] = @ \o [j \in 1..Len(display_ids) |->
                                        Event("rm_profile", display_ids[j])]]
  /\ UNCHANGED <<shared, alive, page, closed, exited, calls, ret, gen,
                 iterLen, tabs, cur, arg, result, report, spawnRes,
                 connRes, clean, hist, config, poll, sent>>

\* main.py:161-215: one iteration of the spawn loop.  Popen either returns a
\* process, which is stored under its display id, or raises, which is logged
\* and skipped.  After the last display: main.py:217-222.
SpawnStored(t, d) == Put(chrome_processes, d, Proc(d, gen[t]))

StartSpawn(t) ==
  /\ At(t, "s_spawn")
  /\ idx[t] <= Len(display_ids)
  /\ LET d == display_ids[idx[t]] IN
     \/ /\ chrome_processes' = SpawnStored(t, d)
        /\ alive' = alive \cup {Proc(d, gen[t])}
        /\ dirs' = [dirs EXCEPT ![d] = "present"]
        /\ page' = [page EXCEPT ![d] = FreshPage]
        /\ spawnRes' = [spawnRes EXCEPT ![t][d] = "ok"]
     \/ /\ spawnRes' = [spawnRes EXCEPT ![t][d] = "fail"]
        /\ UNCHANGED <<chrome_processes, alive, dirs, page>>
  /\ idx' = [idx EXCEPT ![t] = @ + 1]
  /\ Logged(t, Event("spawn", display_ids[idx[t]]))
  /\ UNCHANGED <<controller, browsers, cleaning_up, closed, exited, calls,
                 pc, ret, gen, iterLen, tabs, cur, arg, result, report,
                 connRes, clean, hist, pure, sent>>

\* main.py:217-222: no process at all is an error; otherwise wait 5 s and
\* go on to the connect loop.
NoProcesses == chrome_processes = <<>>

StartCheckProcesses(t) ==
  /\ At(t, "s_spawn")
  /\ idx[t] > Len(display_ids)
  /\ IF NoProcesses
     THEN Goto(t, "s_except") /\ idx' = [idx EXCEPT ![t] = 0]
     ELSE Goto(t, "s_connect") /\ idx' = [idx EXCEPT ![t] = 1]
  /\ UNCHANGED <<shared, os, calls, ret, gen, iterLen, tabs, cur, arg,
                 result, report, spawnRes, connRes, clean, hist, pure, trace>>

\* Mutant: a failed connect aborts the whole start.
ConnectFailedFatal(t, d) ==
  /\ connRes' = [connRes EXCEPT ![t][d] = "fail"]
  /\ idx' = [idx EXCEPT ![t] = 0]
  /\ tabs' = [tabs EXCEPT ![t] = None]
  /\ Goto(t, "s_except")

\* The connect of display d failed (main.py:262-265): logged, next display.
\* (The locals of the retry loop are dead from here on.)
ConnectFailed(t, d) ==
  /\ connRes' = [connRes EXCEPT ![t][d] = "fail"]
  /\ idx' = [idx EXCEPT ![t] = @ + 1]
  /\ tabs' = [tabs EXCEPT ![t] = None]
  /\ Goto(t, "s_connect")

\* main.py:234-244: the retry loop over the answers of list_tab(), each
\* "raise" or a listing.  A raise sleeps and goes on unless it is the last
\* attempt, which re-raises; a listing with an entry breaks; an empty one
\* goes on at once.  The result: the attempts made, whether the loop raised,
\* and the variable tabs.
Raises == [raise |-> TRUE, tabs |-> <<>>]
Lists(l) == [raise |-> FALSE, tabs |-> l]

\* Mutant: all the polls are made, the last one counts.
RetryLoopToTheEnd(answers, a, tabsNow) ==
  [attempts |-> max_retries,
   raised |-> answers[max_retries].raise,
   tabs |-> IF answers[max_retries].raise THEN tabsNow
            ELSE answers[max_retries].tabs]

RECURSIVE RetryLoop(_, _, _)
RetryLoop(answers, a, tabsNow) ==
  IF a >= max_retries
  THEN [attempts |-> a, raised |-> FALSE, tabs |-> tabsNow]
  ELSE IF answers[a + 1].raise
       THEN IF a < max_retries - 1
            THEN RetryLoop(answers, a + 1, tabsNow)
            ELSE [attempts |-> a + 1, raised |-> TRUE, tabs |-> tabsNow]
       ELSE IF answers[a + 1].tabs # <<>>
            THEN [attempts |-> a + 1, raised |-> FALSE,
                  tabs |-> answers[a + 1].tabs]
            ELSE RetryLoop(answers, a + 1, answers[a + 1].tabs)

\* The answers the endpoint of display d gives to max_retries polls: it
\* refuses (raise) or lists nothing for the first k polls, and from then on
\* lists the tab of a process that answers on the display's port; or it
\* never lists a tab.
Repeat(n, x) == [j \in 1..n |-> x]

\* The port paired with display d (zip at main.py:225), and the port in the
\* command line of process q (--remote-debugging-port, main.py:196)
IndexOf(d) == CHOOSE j \in 1..Len(display_ids) : display_ids[j] = d
PortOf(d) == ports[IndexOf(d)]
ListensOn(q) == launch.targets[IndexOf(q[1])].port

\* Mutant: the endpoint asked is the one of whatever browser is running
PollsAnyPort(d) ==
  {Repeat(k, f) \o Repeat(max_retries - k, Lists(<<p>>)) :
     k \in {0, 1, max_retries - 1}, f \in {Raises, Lists(<<>>)},
     p \in alive}
  \cup {Repeat(max_retries, f) : f \in {Raises, Lists(<<>>)}}
  \cup {Repeat(max_retries - 1, Lists(<<>>)) \o <<Raises>>,
        Repeat(max_retries - 1, Raises) \o <<Lists(<<>>)>>}

Polls(d) ==
  {Repeat(k, f) \o Repeat(max_retries - k, Lists(<<p>>)) :
     k \in {0, 1, max_retries - 1}, f \in {Raises, Lists(<<>>)},
     p \in {q \in alive : ListensOn(q) = PortOf(d)}}
  \cup {Repeat(max_retries, f) : f \in {Raises, Lists(<<>>)}}
  \cup {Repeat(max_retries - 1, Lists(<<>>)) \o <<Raises>>,
        Repeat(max_retries - 1, Raises) \o <<Lists(<<>>)>>}

\* main.py:225-247: one iteration of the connect loop up to the claim of the
\* tab.  A display without a process handle is skipped; for the others the
\* endpoint is polled, and a loop that raised or ended with no tab is a
\* failed connect (main.py:246-247, 262-265).
HasProcess(d) == Has(chrome_processes, d)

StartConnect(t) ==
  /\ At(t, "s_connect")
  /\ idx[t] <= Len(display_ids)
  /\ LET d == display_ids[idx[t]] IN
     IF ~HasProcess(d)
     THEN /\ idx' = [idx EXCEPT ![t] = @ + 1]
          /\ connRes' = [connRes EXCEPT ![t][d] = "skip"]
          /\ UNCHANGED <<pc, tabs>>
     ELSE \E answers \in Polls(d) :
            LET r == RetryLoop(answers, 0, None) IN
            /\ IF r.raised \/ r.tabs = <<>>
               THEN ConnectFailed(t, d)
               ELSE /\ tabs' = [tabs EXCEPT ![t] = r.tabs]
                    /\ Goto(t, "s_tab")
                    /\ UNCHANGED <<idx, connRes>>
  /\ UNCHANGED <<shared, os, calls, ret, gen, iterLen, cur, arg, result,
                 report, spawnRes, clean, hist, pure, trace>>

\* main.py:250-260: claim the first tab: tab.start(), Page.enable(),
\* Runtime.enable(); when none of them raises the tab is stored as the
\* display's session.
SessionStored(t, d) == Put(browsers, d, Tab(d, gen[t], tabs[t][1]))

StartClaimTab(t) ==
  /\ At(t, "s_tab")
  /\ LET d == display_ids[idx[t]] IN
     \/ /\ tabs[t][1] \in alive
        /\ browsers' = SessionStored(t, d)
        /\ closed' = closed \cap Vals(browsers')
        /\ connRes' = [connRes EXCEPT ![t][d] = "ok"]
        /\ idx' = [idx EXCEPT ![t] = @ + 1]
        /\ tabs' = [tabs EXCEPT ![t] = None]
        /\ Goto(t, "s_connect")
     \/ /\ ConnectFailed(t, d)
        /\ UNCHANGED <<browsers, closed>>
  /\ UNCHANGED <<controller, chrome_processes, cleaning_up, alive, dirs, page,
                 exited, calls, ret, gen, iterLen, cur, arg, result, report,
                 spawnRes, clean, hist, pure, trace>>

\* main.py:267-270: no session at all is an error; otherwise the call
\* returns and /start answers success.
\* Mutant: every display must have a session.
NotAllSessions == Len(browsers) < Len(display_ids)

NoSessions == browsers = <<>>

StartCheckSessions(t) ==
  /\ At(t, "s_connect")
  /\ idx[t] > Len(display_ids)
  /\ IF NoSessions
     THEN Goto(t, "s_except") /\ UNCHANGED result
     ELSE Return(t, Result("start", TRUE, "Displays started", FALSE, ""))
  /\ idx' = [idx EXCEPT ![t] = 0]
  /\ UNCHANGED <<shared, os, calls, ret, gen, iterLen, tabs,
                 cur, arg, report, spawnRes, connRes, clean, hist,
                 pure, trace>>

\* Mutant: the exception is re-raised without cleanup().
StartExceptNoCleanup(t) ==
  /\ At(t, "s_except")
  /\ Return(t, [op |-> "start", ok |-> FALSE, msg |-> "error", cmd |-> FALSE,
                url |-> ""])
  /\ UNCHANGED <<shared, os, calls, ret, gen, idx, iterLen, tabs, cur, arg,
                 report, spawnRes, connRes, clean, hist, pure, trace>>

\* main.py:272-275: any exception of the body: cleanup(), then re-raise.
StartExcept(t) ==
  /\ At(t, "s_except")
  /\ ret' = [ret EXCEPT ![t] = "start"]
  /\ Goto(t, "c_guard")
  /\ UNCHANGED <<shared, os, calls, gen, idx, iterLen, tabs, cur,
                 arg, result, report, spawnRes, connRes, clean, hist,
                 pure, trace>>

\* ------------------------------------------------------------------------
\* cleanup (main.py:317-370), called by /stop (main.py:460-466), by the
\* except clause of start_chrome_instances and by signal_handler

\* What follows the end of cleanup() in its caller.  From /stop: the answer
\* 'Displays stopped', or the framework's error answer when cleanup raised.
\* From start_chrome_instances: the exception is re-raised (main.py:275) and
\* /start answers with an error (main.py:385-386).  From signal_handler: an
\* exception is caught (main.py:491-492) and os._exit(0) ends the program.
CleanupEnds(t, normally) ==
  CASE ret[t] = "stop" ->
         /\ Return(t, IF normally
                      THEN Result("stop", TRUE, "Displays stopped", FALSE, "")
                      ELSE Result("stop", FALSE, "Internal Server Error", FALSE, ""))
         /\ UNCHANGED exited
    [] ret[t] = "start" ->
         /\ Return(t, Result("start", FALSE, "error", FALSE, ""))
         /\ UNCHANGED exited
    [] ret[t] = "signal" ->
         /\ exited' = TRUE
         /\ Goto(t, "exit")
         /\ UNCHANGED result

\* main.py:464-466: /stop calls cleanup() when there is a controller and
\* answers 'Displays stopped'.
stop_displays(t) ==
  /\ CanBegin(t)
  /\ IF controller
     THEN /\ Begin(t, "c_guard", 0, "", NoResult)
          /\ ret' = [ret EXCEPT ![t] = "stop"]
     ELSE /\ Begin(t, "idle", 0, "",
                   Result("stop", TRUE, "Displays stopped", FALSE, ""))
          /\ UNCHANGED ret
  /\ UNCHANGED <<shared, os, gen, spawnRes, connRes, clean, hist, pure>>

\* main.py:319-320: the re-entrancy guard is read; a call that finds it set
\* returns at once.
GuardSet == cleaning_up

CleanupGuard(t) ==
  /\ At(t, "c_guard")
  /\ IF GuardSet
     THEN CleanupEnds(t, TRUE)
     ELSE Goto(t, "c_set") /\ UNCHANGED <<result, exited>>
  /\ UNCHANGED <<shared, alive, dirs, page, closed, calls, ret, gen, idx,
                 iterLen, tabs, cur, arg, report, spawnRes, connRes, clean,
                 hist, pure, trace>>

\* main.py:322-326: the guard is set, and the loop over browsers.items()
\* takes its iterator, which records the size of the dict.
\* Mutant: the sessions are not closed, the termination loop starts at once.
CleanupSetSkipsSessions(t) ==
  /\ At(t, "c_set")
  /\ cleaning_up' = TRUE
  /\ iterLen' = [iterLen EXCEPT ![t] = Len(chrome_processes)]
  /\ idx' = [idx EXCEPT ![t] = 1]
  /\ Goto(t, "c_procs")
  /\ UNCHANGED <<controller, browsers, chrome_processes, os, calls, ret, gen,
                 tabs, cur, arg, result, report, spawnRes, connRes, clean,
                 hist, pure, trace>>

CleanupSet(t) ==
  /\ At(t, "c_set")
  /\ cleaning_up' = TRUE
  /\ iterLen' = [iterLen EXCEPT ![t] = Len(browsers)]
  /\ idx' = [idx EXCEPT ![t] = 1]
  /\ Goto(t, "c_tabs")
  /\ UNCHANGED <<controller, browsers, chrome_processes, os, calls, ret, gen,
                 tabs, cur, arg, result, report, spawnRes, connRes, clean,
                 hist, pure, trace>>

\* main.py:326-331: the next item of browsers.items(): a dict whose size
\* changed since the iterator was taken raises RuntimeError, outside any
\* try; otherwise tab.stop() is called, which leaves the session stopped
\* whether or not it raises, and its exception is swallowed.  After the last
\* item the loop over chrome_processes.items() takes its iterator
\* (main.py:334).
CleanupCloseTab(t) ==
  /\ At(t, "c_tabs")
  /\ IF Len(browsers) # iterLen[t]
     THEN /\ CleanupEnds(t, FALSE)
          /\ idx' = [idx EXCEPT ![t] = 0]
          /\ iterLen' = [iterLen EXCEPT ![t] = 0]
          /\ UNCHANGED <<closed, log>>
     ELSE IF idx[t] <= iterLen[t]
     THEN /\ closed' = closed \cup {browsers[idx[t]].v}
          /\ Logged(t, Event("close", browsers[idx[t]].k))
          /\ idx' = [idx EXCEPT ![t] = @ + 1]
          /\ UNCHANGED <<pc, result, exited, iterLen>>
     ELSE /\ iterLen' = [iterLen EXCEPT ![t] = Len(chrome_processes)]
          /\ idx' = [idx EXCEPT ![t] = 1]
          /\ Goto(t, "c_procs")
          /\ UNCHANGED <<closed, result, exited, log>>
  /\ UNCHANGED <<shared, alive, dirs, page, calls, ret, gen, tabs,
                 cur, arg, report, spawnRes, connRes, clean, hist, pure, sent>>

\* main.py:334-338: the next item of chrome_processes.items() (RuntimeError
\* as above).  poll() tells whether the process still runs: it has been
\* killed before, or it has ended by itself, which the controller notices
\* here.  If it runs, terminate() is sent, and an exception of it is logged
\* (main.py:348-349).
CleanupTerminate(t) ==
  /\ At(t, "c_procs")
  /\ IF Len(chrome_processes) # iterLen[t]
     THEN /\ CleanupEnds(t, FALSE)
          /\ idx' = [idx EXCEPT ![t] = 0]
          /\ iterLen' = [iterLen EXCEPT ![t] = 0]
          /\ UNCHANGED <<cur, termAttempted, alive, log, sent>>
     ELSE IF idx[t] <= iterLen[t]
     THEN LET p == chrome_processes[idx[t]].v IN
          /\ termAttempted' = termAttempted \cup {p}
          /\ Logged(t, Event("poll", chrome_processes[idx[t]].k))
          /\ \/ /\ p \in alive
                /\ \/ /\ Goto(t, "c_wait1")
                      /\ cur' = [cur EXCEPT ![t] = p]
                      /\ sent' = [sent EXCEPT ![t] = <<"terminate">>]
                      /\ UNCHANGED idx
                   \/ /\ idx' = [idx EXCEPT ![t] = @ + 1]
                      /\ UNCHANGED <<pc, cur, sent>>
                /\ UNCHANGED alive
             \/ /\ alive' = alive \ {p}
                /\ idx' = [idx EXCEPT ![t] = @ + 1]
                /\ UNCHANGED <<pc, cur, sent>>
          /\ UNCHANGED <<result, exited, iterLen>>
     ELSE /\ Goto(t, "c_sweep")
          /\ idx' = [idx EXCEPT ![t] = 0]
          /\ iterLen' = [iterLen EXCEPT ![t] = 0]
          /\ UNCHANGED <<cur, termAttempted, alive, result, exited, log,
                         sent>>
  /\ UNCHANGED <<shared, dirs, page, closed, calls, ret, gen, tabs,
                 arg, report, spawnRes, connRes, clean, starts, signalAt,
                 stoppedDuring, pure>>

\* main.py:339-343: wait(timeout=3): the process exits in time, or
\* TimeoutExpired and kill() is sent.
\* Mutant: kill() is sent after the wait, whether or not the process exited.
CleanupWaitThenKill(t) ==
  /\ At(t, "c_wait1")
  /\ \/ alive' = alive \ {cur[t]}
     \/ cur[t] \in alive /\ alive' = alive
  /\ sent' = [sent EXCEPT ![t] = Append(@, "kill")]
  /\ Goto(t, "c_wait2")
  /\ UNCHANGED <<idx, cur>>
  /\ UNCHANGED <<shared, dirs, page, closed, exited, calls, ret, gen, iterLen,
                 tabs, arg, result, report, spawnRes, connRes, clean,
                 hist, pure, log>>

CleanupWaitTerminate(t) ==
  /\ At(t, "c_wait1")
  /\ \/ /\ alive' = alive \ {cur[t]}
        /\ idx' = [idx EXCEPT ![t] = @ + 1]
        /\ cur' = [cur EXCEPT ![t] = None]
        /\ sent' = [sent EXCEPT ![t] = <<>>]
        /\ Goto(t, "c_procs")
     \/ /\ cur[t] \in alive
        /\ sent' = [sent EXCEPT ![t] = Append(@, "kill")]
        /\ Goto(t, "c_wait2")
        /\ UNCHANGED <<alive, idx, cur>>
  /\ UNCHANGED <<shared, dirs, page, closed, exited, calls, ret, gen, iterLen,
                 tabs, arg, result, report, spawnRes, connRes, clean,
                 hist, pure, log>>

\* main.py:344-347: wait(timeout=2) after kill(): the process exits in
\* time, or TimeoutExpired is passed over.
CleanupWaitKill(t) ==
  /\ At(t, "c_wait2")
  /\ \/ alive' = alive \ {cur[t]}
     \/ cur[t] \in alive /\ alive' = alive
  /\ idx' = [idx EXCEPT ![t] = @ + 1]
  /\ cur' = [cur EXCEPT ![t] = None]
  /\ Goto(t, "c_procs")
  /\ sent' = [sent EXCEPT ![t] = <<>>]
  /\ UNCHANGED <<shared, dirs, page, closed, exited, calls, ret, gen, iterLen,
                 tabs, arg, result, report, spawnRes, connRes, clean,
                 hist, pure, log>>

\* Mutant: an exception of the sweep leaves cleanup().
CleanupSweepRaises(t) ==
  /\ At(t, "c_sweep")
  /\ \/ /\ \E survivors \in Signalled(alive) : alive' = survivors
        /\ termAttempted' = termAttempted \cup alive
        /\ Goto(t, "c_rm")
        /\ UNCHANGED <<result, exited>>
     \/ /\ CleanupEnds(t, FALSE)
        /\ UNCHANGED <<alive, termAttempted>>
  /\ Logged(t, Event("sweep", 0))
  /\ UNCHANGED <<shared, dirs, page, closed, calls, ret, gen, idx,
                 iterLen, tabs, cur, arg, report, spawnRes,
                 connRes, clean, starts, signalAt,
                 stoppedDuring, pure, sent>>

\* main.py:351-356: pkill -f chrome, pkill -f chromium; an exception
\* (timeout, no pkill) skips the rest of the sweep.
CleanupSweep(t) ==
  /\ At(t, "c_sweep")
  /\ \/ /\ \E survivors \in Signalled(alive) : alive' = survivors
        /\ termAttempted' = termAttempted \cup alive
     \/ UNCHANGED <<alive, termAttempted>>
  /\ Goto(t, "c_rm")
  /\ Logged(t, Event("sweep", 0))
  /\ UNCHANGED <<shared, dirs, page, closed, exited, calls, ret, gen, idx,
                 iterLen, tabs, cur, arg, result, report, spawnRes,
                 connRes, clean, starts, signalAt,
                 stoppedDuring, pure, sent>>

\* main.py:358-364: rm -rf of each profile directory; an exception
\* (timeout) is passed over, and the directories stay.
CleanupRemoveProfiles(t) ==
  /\ At(t, "c_rm")
  /\ dirs' \in {Removed, Kept}
  /\ Goto(t, "c_clear1")
  /\ Logged(t, Event("rm_profiles", 0))
  /\ UNCHANGED <<shared, alive, page, closed, exited, calls, ret, gen, idx,
                 iterLen, tabs, cur, arg, result, report, spawnRes,
                 connRes, clean, hist, pure, sent>>

\* Mutant: the sessions are not cleared.
CleanupKeepsSessions(t) ==
  /\ At(t, "c_clear1")
  /\ Goto(t, "c_clear2")
  /\ UNCHANGED <<shared, os, calls, ret, gen, idx, iterLen, tabs, cur, arg,
                 result, report, spawnRes, connRes, clean, hist, pure, trace>>

\* main.py:367: self.browsers.clear().  (The sessions are unreachable from
\* here on, and are forgotten.)
CleanupClearBrowsers(t) ==
  /\ At(t, "c_clear1")
  /\ browsers' = <<>>
  /\ closed' = {}
  /\ Goto(t, "c_clear2")
  /\ Logged(t, Event("clear_sessions", 0))
  /\ UNCHANGED <<controller, chrome_processes, cleaning_up, alive, dirs, page,
                 exited, calls, ret,
                 gen, idx, iterLen, tabs, cur, arg, result, report,
                 spawnRes, connRes, clean, hist, pure, sent>>

\* Mutant: only the handles of processes that have ended are dropped.
CleanupDropsEnded(t) ==
  /\ At(t, "c_clear2")
  /\ chrome_processes' = SelectSeq(chrome_processes, LAMBDA e : e.v \in alive)
  /\ Goto(t, "c_reset")
  /\ UNCHANGED <<controller, browsers, cleaning_up, os, calls, ret, gen, idx,
                 iterLen, tabs, cur, arg, result, report, spawnRes, connRes,
                 clean, hist, pure, trace>>

\* main.py:368: self.chrome_processes.clear()
CleanupClearProcesses(t) ==
  /\ At(t, "c_clear2")
  /\ chrome_processes' = <<>>
  /\ Goto(t, "c_reset")
  /\ Logged(t, Event("clear_handles", 0))
  /\ UNCHANGED <<controller, browsers, cleaning_up, os, calls, ret, gen, idx,
                 iterLen, tabs, cur, arg, result, report, spawnRes,
                 connRes, clean, hist, pure, sent>>

\* main.py:370: the guard is reset and cleanup() returns.
CleanupReset(t) ==
  /\ At(t, "c_reset")
  /\ cleaning_up' = FALSE
  /\ CleanupEnds(t, TRUE)
  /\ stoppedDuring' =
       IF ret[t] = "stop"
          /\ \E u \in Requests :
               pc[u] \in {"s_pkill", "s_rmdirs", "s_spawn", "s_connect", "s_tab"}
         THEN starts
         ELSE stoppedDuring
  /\ UNCHANGED <<controller, browsers, chrome_processes, alive, dirs, page,
                 closed, calls, ret, gen, idx, iterLen, tabs, cur,
                 arg, report, spawnRes, connRes, clean, starts, termAttempted,
                 signalAt, pure, trace>>
\* ------------------------------------------------------------------------
\* navigate_to_url, refresh_display, get_current_url (main.py:277-315) behind
\* their routes (main.py:388-425)

NotInitialized(op) ==
  Result(op, FALSE, "Controller not initialized. Call /start first", FALSE, "")
NotFound(op) == Result(op, FALSE, "Display not found", FALSE, "")

\* Mutant: the check looks in the process map.
HasHandle(d) == Has(chrome_processes, d)

\* The session check that opens the three methods (main.py:280, 293, 306).
HasSession(d) == Has(browsers, d)

\* A command on a session is answered only while the session has not been
\* stopped and its browser process runs; it may fail at any time.
Answers(tab) == tab \notin closed /\ tab.p \in alive

\* The first step of a command request: the route's controller check and
\* the method's session check.
CommandBegin(t, op, d, url, next) ==
  /\ CanBegin(t)
  /\ IF ~controller THEN Begin(t, "idle", d, url, NotInitialized(op))
     ELSE IF ~HasSession(d) THEN Begin(t, "idle", d, url, NotFound(op))
     ELSE Begin(t, next, d, url, NoResult)
  /\ UNCHANGED <<shared, os, ret, gen, spawnRes, connRes, clean, hist, pure>>

\* main.py:277-281
navigate_to_url(t, d, url) == CommandBegin(t, "navigate", d, url, "n_cmd")
\* main.py:290-294
refresh_display(t, d) == CommandBegin(t, "refresh", d, "", "r_cmd")
\* main.py:303-307
get_current_url(t, d) == CommandBegin(t, "current", d, "", "u_cmd")

\* Mutant: a failed command drops the display's session.
NavigateCommandDropsSession(t) ==
  /\ At(t, "n_cmd")
  /\ LET d == arg[t].d IN
     IF ~Has(browsers, d)
     THEN /\ Return(t, [op |-> "navigate", ok |-> FALSE,
                        msg |-> "Navigation failed", cmd |-> FALSE, url |-> ""])
          /\ UNCHANGED <<page, browsers>>
     ELSE \/ /\ Get(browsers, d) \notin closed
             /\ Get(browsers, d).p \in alive
             /\ page' = [page EXCEPT ![d].req = arg[t].url]
             /\ Return(t, [op |-> "navigate", ok |-> TRUE,
                           msg |-> "Navigation successful", cmd |-> TRUE,
                           url |-> ""])
             /\ UNCHANGED browsers
          \/ /\ Return(t, [op |-> "navigate", ok |-> FALSE,
                           msg |-> "Navigation failed", cmd |-> TRUE,
                           url |-> ""])
             /\ browsers' = SelectSeq(browsers, LAMBDA e : e.k # d)
             /\ UNCHANGED page
  /\ UNCHANGED <<controller, chrome_processes, cleaning_up, alive, dirs,
                 closed, exited, calls, ret, gen, idx, iterLen, tabs, cur, arg,
                 report, spawnRes, connRes, clean, hist, pure, trace>>

\* main.py:283-288: the session is looked up (KeyError when it is gone) and
\* Page.navigate is issued; the call returns once the command is answered,
\* the page loads afterwards.
NavigateCommand(t) ==
  /\ At(t, "n_cmd")
  /\ LET d == arg[t].d IN
     IF ~Has(browsers, d)
     THEN /\ Return(t, Result("navigate", FALSE, "Navigation failed", FALSE, ""))
          /\ UNCHANGED page
     ELSE \/ /\ Answers(Get(browsers, d))
             /\ page' = [page EXCEPT ![Get(browsers, d).p[1]].req = arg[t].url]
             /\ Return(t, Result("navigate", TRUE, "Navigation successful", TRUE, ""))
          \/ /\ Return(t, Result("navigate", FALSE, "Navigation failed", TRUE, ""))
             /\ UNCHANGED page
  /\ UNCHANGED <<shared, alive, dirs, closed, exited, calls, ret, gen, idx,
                 iterLen, tabs, cur, arg, report, spawnRes, connRes, clean,
                 hist, pure, trace>>

\* main.py:296-301: Page.reload
RefreshCommand(t) ==
  /\ At(t, "r_cmd")
  /\ LET d == arg[t].d IN
     IF ~Has(browsers, d)
     THEN Return(t, Result("refresh", FALSE, "Refresh failed", FALSE, ""))
     ELSE \/ /\ Answers(Get(browsers, d))
             /\ Return(t, Result("refresh", TRUE, "Refresh successful", TRUE, ""))
          \/ Return(t, Result("refresh", FALSE, "Refresh failed", TRUE, ""))
  /\ UNCHANGED <<shared, os, calls, ret, gen, idx, iterLen, tabs, cur,
                 arg, report, spawnRes, connRes, clean, hist, pure, trace>>

\* main.py:309-315: Runtime.evaluate of window.location.href; the value is
\* the url the page shows.
Evaluate(tab) == page[tab.p[1]].cur

CurrentCommand(t) ==
  /\ At(t, "u_cmd")
  /\ LET d == arg[t].d IN
     IF ~Has(browsers, d)
     THEN Return(t, Result("current", FALSE, "Failed to get URL", FALSE, ""))
     ELSE \/ /\ Answers(Get(browsers, d))
             /\ Return(t, Result("current", TRUE, "Success", TRUE,
                                 Evaluate(Get(browsers, d))))
          \/ Return(t, Result("current", FALSE, "Failed to get URL", TRUE, ""))
  /\ UNCHANGED <<shared, os, calls, ret, gen, idx, iterLen, tabs, cur,
                 arg, report, spawnRes, connRes, clean, hist, pure, trace>>

\* ------------------------------------------------------------------------
\* GET /status (main.py:427-458)

\* One display's entry of the answer: the status, and for the check of it
\* whether the session was in the map at main.py:440 and how the probe ended.
Entry(status, had, probe) == [status |-> status, had |-> had, probe |-> probe]

\* Mutant: a display with a session is always 'active'.
StatusAlwaysActive(url) == "active"

\* main.py:444
StatusOf(url) == IF url # "" THEN "active" ELSE "error"

\* main.py:431-438
get_status(t) ==
  /\ CanBegin(t)
  /\ IF ~controller
     THEN Begin(t, "idle", 0, "",
                Result("status", TRUE, "Controller not initialized", FALSE, ""))
     ELSE Begin(t, "st_check", 0, "", NoResult)
  /\ UNCHANGED <<shared, os, ret, gen, spawnRes, connRes, clean, hist, pure>>

\* main.py:439-440, 447-458: the loop over [1, 2]: a display without a
\* session is 'inactive'; after the last display the answer is sent.
StatusCheck(t) ==
  /\ At(t, "st_check")
  /\ IF idx[t] + 1 > Len(display_ids)
     THEN /\ Return(t, Result("status", TRUE, "success", FALSE, ""))
          /\ idx' = [idx EXCEPT ![t] = 0]
          /\ UNCHANGED report
     ELSE LET d == display_ids[idx[t] + 1] IN
          IF HasSession(d)
          THEN Goto(t, "st_in") /\ UNCHANGED <<idx, report, result>>
          ELSE /\ report' = [report EXCEPT ![t][d] = Entry("inactive", FALSE, "none")]
               /\ idx' = [idx EXCEPT ![t] = @ + 1]
               /\ UNCHANGED <<pc, result>>
  /\ UNCHANGED <<shared, os, calls, ret, gen, iterLen, tabs, cur, arg,
                 spawnRes, connRes, clean, hist, pure, trace>>

\* main.py:441 -> 306-307: get_current_url checks the session again.
StatusProbeCheck(t) ==
  /\ At(t, "st_in")
  /\ LET d == display_ids[idx[t] + 1] IN
     IF ~HasSession(d)
     THEN /\ report' = [report EXCEPT ![t][d] = Entry(StatusOf(""), TRUE, "none")]
          /\ idx' = [idx EXCEPT ![t] = @ + 1]
          /\ Goto(t, "st_check")
     ELSE Goto(t, "st_cmd") /\ UNCHANGED <<idx, report>>
  /\ UNCHANGED <<shared, os, calls, ret, gen, iterLen, tabs, cur, arg,
                 result, spawnRes, connRes, clean, hist, pure, trace>>

\* main.py:441 -> 309-315, 442-446: the probe and the display's entry.
StatusProbe(t) ==
  /\ At(t, "st_cmd")
  /\ LET d == display_ids[idx[t] + 1] IN
     IF ~Has(browsers, d)
     THEN report' = [report EXCEPT ![t][d] = Entry(StatusOf(""), TRUE, "none")]
     ELSE \/ /\ Answers(Get(browsers, d))
             /\ report' = [report EXCEPT ![t][d] =
                             Entry(StatusOf(Evaluate(Get(browsers, d))), TRUE, "ok")]
          \/ report' = [report EXCEPT ![t][d] = Entry(StatusOf(""), TRUE, "fail")]
  /\ idx' = [idx EXCEPT ![t] = @ + 1]
  /\ Goto(t, "st_check")
  /\ UNCHANGED <<shared, os, calls, ret, gen, iterLen, tabs, cur, arg,
                 result, spawnRes, connRes, clean, hist, pure, trace>>

\* ------------------------------------------------------------------------
\* signal_handler (main.py:484-494), run by the main thread

signal_handler ==
  /\ At(Main, "idle")
  /\ IF controller
     THEN /\ Goto(Main, "c_guard")
          /\ ret' = [ret EXCEPT ![Main] = "signal"]
          /\ UNCHANGED exited
     ELSE /\ exited' = TRUE
          /\ Goto(Main, "exit")
          /\ UNCHANGED ret
  /\ LET inCleanup(t) ==
           pc[t] \in {"c_guard", "c_set", "c_tabs", "c_procs", "c_wait1",
                      "c_wait2", "c_sweep", "c_rm", "c_clear1", "c_clear2",
                      "c_reset"}
         inStop(t) == ret[t] = "stop" /\ inCleanup(t)
     IN  signalAt' = /\ \E t \in Requests : inStop(t)
                     /\ \A t \in Requests : pc[t] = "idle" \/ inStop(t)
  /\ UNCHANGED <<shared, alive, dirs, page, closed, calls, gen, idx, iterLen,
                 tabs, cur, arg, result, report, spawnRes, connRes, clean,
                 starts, termAttempted, stoppedDuring, pure, trace>>

\* ------------------------------------------------------------------------
\* The browsers

\* A browser finishes loading the page it was told to show.
PageLoads ==
  /\ ~exited
  /\ \E d \in Displays :
       /\ page[d].cur # page[d].req
       /\ \E p \in alive : p[1] = d
       /\ page' = [page EXCEPT ![d].cur = page[d].req]
  /\ UNCHANGED <<shared, alive, dirs, closed, exited, calls, locals, hist,
                 pure, trace>>

\* ------------------------------------------------------------------------
\* The steps of one thread
Step(t) ==
  \/ start_displays(t)
  \/ StartKillOld(t)
  \/ StartRemoveProfiles(t)
  \/ StartSpawn(t)
  \/ StartCheckProcesses(t)
  \/ StartConnect(t)
  \/ StartClaimTab(t)
  \/ StartCheckSessions(t)
  \/ StartExcept(t)
  \/ stop_displays(t)
  \/ CleanupGuard(t)
  \/ CleanupSet(t)
  \/ CleanupCloseTab(t)
  \/ CleanupTerminate(t)
  \/ CleanupWaitTerminate(t)
  \/ CleanupWaitKill(t)
  \/ CleanupSweep(t)
  \/ CleanupRemoveProfiles(t)
  \/ CleanupClearBrowsers(t)
  \/ CleanupClearProcesses(t)
  \/ CleanupReset(t)
  \/ \E d \in ArgIds : \E url \in Urls : navigate_to_url(t, d, url)
  \/ \E d \in ArgIds : refresh_display(t, d)
  \/ \E d \in ArgIds : get_current_url(t, d)
  \/ NavigateCommand(t)
  \/ RefreshCommand(t)
  \/ CurrentCommand(t)
  \/ get_status(t)
  \/ StatusCheck(t)
  \/ StatusProbeCheck(t)
  \/ StatusProbe(t)

\* One request at a time: the calls on the controller do not overlap.
Next ==
  \/ Step("t1")
  \/ PageLoads

Spec == Init /\ [][Next]_vars

\* A shutdown signal arrives at any moment of the requests of one thread:
\* signal_handler and its cleanup() overlap that thread's call.
StepMain ==
  \/ signal_handler
  \/ CleanupGuard(Main)
  \/ CleanupSet(Main)
  \/ CleanupCloseTab(Main)
  \/ CleanupTerminate(Main)
  \/ CleanupWaitTerminate(Main)
  \/ CleanupWaitKill(Main)
  \/ CleanupSweep(Main)
  \/ CleanupRemoveProfiles(Main)
  \/ CleanupClearBrowsers(Main)
  \/ CleanupClearProcesses(Main)
  \/ CleanupReset(Main)

NextSig ==
  \/ Step("t1") /\ calls' <= MaxSigCalls
  \/ StepMain
  \/ PageLoads

SpecSig == Init /\ [][NextSig]_vars

\* ------------------------------------------------------------------------
\* Two request threads (app.run serves each request in its own thread,
\* main.py:579): thread t1 takes any request, thread t2 sends one /stop.
MaxPairCalls == 3      \* requests in one behaviour with two request threads

StepStop(t) ==
  \/ stop_displays(t) /\ result[t] = NoResult
  \/ CleanupGuard(t)
  \/ CleanupSet(t)
  \/ CleanupCloseTab(t)
  \/ CleanupTerminate(t)
  \/ CleanupWaitTerminate(t)
  \/ CleanupWaitKill(t)
  \/ CleanupSweep(t)
  \/ CleanupRemoveProfiles(t)
  \/ CleanupClearBrowsers(t)
  \/ CleanupClearProcesses(t)
  \/ CleanupReset(t)

NextPair ==
  \/ Step("t1") /\ calls' <= MaxPairCalls
  \/ StepStop("t2") /\ calls' <= MaxPairCalls
  \/ PageLoads

SpecPair == Init /\ [][NextPair]_vars

\* ------------------------------------------------------------------------
\* Progress of a request.  subprocess.run is given no timeout at
\* main.py:138 (pkill) and main.py:148 (rm -rf of a profile directory that
\* exists): the call lasts as long as the child process does, and a child
\* that does not end leaves the thread in the call.
Blocks(t) ==
  /\ \/ At(t, "s_pkill")
     \/ At(t, "s_rmdirs") /\ \E d \in Displays : dirs[d] # "absent"
  /\ Goto(t, "blocked")
  /\ UNCHANGED <<shared, os, calls, ret, gen, idx, iterLen, tabs, cur,
                 arg, result, report, spawnRes, connRes, clean, hist,
                 pure, trace>>

NextLive ==
  \/ Step("t1")
  \/ PageLoads
  \/ Blocks("t1")

\* The thread of a request runs as long as it has a step to take.
SpecLive == Init /\ [][NextLive]_vars /\ WF_vars(Step("t1"))

\* ------------------------------------------------------------------------
\* The launch plan as a function of the command line and of the tool's
\* output (main.py:500-565, 56-131, 150-200)
GeomLen == 4           \* longest geometry word drawn character by character

GeomChars == {"0", "1", "x", Plus, Minus}
Strings(alphabet, n) == UNION {[1..k -> alphabet] : k \in 0..n}

\* "WxH+X+Y" as the tool prints it
Geometry(w, h, x, y) ==
  str(w) \o <<"x">> \o str(h) \o <<Plus>> \o str(x) \o <<Plus>> \o str(y)

Geometries ==
  Strings(GeomChars, GeomLen)
    \cup {Geometry(w, h, x, 0) : w \in {0, 1920}, h \in {0, 1080},
                                 x \in {0, 1920}}
    \cup { <<Minus>> \o Geometry(1, 1, 0, 0),
           <<"1", "x", "1", Plus, "0">>,
           <<"1", "x", "1", Plus, "0", Plus, "x">>,
           <<"1", "x", "1", "x", "1", Plus, "0", Plus, "0">> }

OutputLines ==
  {join(Space, <<<<"A">>, Connected, g>>) : g \in Geometries}
    \cup {join(Space, <<<<"A">>, Connected, Primary, g>>) : g \in Geometries}
    \cup {join(Space, <<<<"B">>, <<"d", "i", "s">> \o Connected>>),
          join(Space, <<<<"A">>, Connected \o <<Plus>>, Primary>>),
          join(Space, <<Connected, <<Plus>>>>)}

SecondLines ==
  {join(Space, <<<<"B">>, Connected, Geometry(1920, 1080, 1920, 0)>>),
   join(Space, <<<<"B">>, Connected, Geometry(0, 1080, 0, 0)>>),
   join(Space, <<<<"B">>, Connected \o <<Plus>>, Primary>>),
   join(Space, <<<<"B">>, <<"d", "i", "s">> \o Connected>>),
   <<>>}

FirstLines ==
  {join(Space, <<<<"A">>, Connected, Primary, Geometry(1920, 1080, 0, 0)>>),
   join(Space, <<<<"A">>, Connected, <<"x">>>>)}

Outputs ==
  {<<>>} \cup OutputLines
         \cup {join(Newline, <<a, b>>) : a \in FirstLines, b \in SecondLines}

Tool ==
  {ToolAbsent, ToolTimesOut, ToolReturns(1, <<>>)}
    \cup {ToolReturns(0, text) : text \in Outputs}

Position(x, y, w, h) == join(",", <<str(x), str(y), str(w), str(h)>>)

Args ==
  [ single_display : BOOLEAN,
    monitor_layout : {"extended", "separate-screens", "auto"},
    displays : {<<":0.0", ":0.1">>, <<":1">>},
    positions : {None,
                 <<Position(0, 0, 800, 600), Position(800, 0, 800, 600)>>,
                 <<Position(0, 0, 800, 600), <<"0", ",", "0">>>>} ]

Configs == [args : Args, xrandr : Tool]

\* map(int, pos.split(',')) unpacked into x, y, w, h (main.py:537-538)
IsPosition(pos) ==
  /\ Len(split(pos, ",")) = 4
  /\ \A j \in 1..4 : IsInt(split(pos, ",")[j])

ManualPosition(pos) ==
  LET f == split(pos, ",")
  IN [x |-> int(f[1]), y |-> int(f[2]), width |-> int(f[3]),
      height |-> int(f[4])]

InitLayout ==
  /\ Idle
  /\ controller = FALSE
  /\ config \in Configs
  /\ launch = NoLaunch
  /\ poll = None

\* main.py:519-542: the command line becomes force_displays, the
\* positioning mode and the manual positions, or the program exits
MainConfigure ==
  /\ launch.stage = "args"
  /\ LET args == config.args
         force_displays ==
           IF args.single_display THEN <<":0">>
           ELSE IF args.monitor_layout = "extended" THEN <<":0", ":0">>
           ELSE args.displays
         positioning_mode ==
           IF args.single_display THEN "single"
           ELSE IF args.monitor_layout = "extended" THEN "extended"
           ELSE IF args.monitor_layout = "separate-screens" THEN "separate"
           ELSE "auto"
     IN IF args.positions # None
           /\ \E j \in 1..Len(args.positions) : ~IsPosition(args.positions[j])
          THEN launch' = [launch EXCEPT !.stage = "exit"]
          ELSE launch' =
                 [launch EXCEPT
                    !.stage = "configured",
                    !.force_displays = force_displays,
                    !.positioning_mode = positioning_mode,
                    !.manual_positions =
                       IF args.positions = None THEN None
                       ELSE [j \in 1..Len(args.positions) |->
                               ManualPosition(args.positions[j])]]
  /\ UNCHANGED <<shared, os, calls, locals, hist, trace, config, poll>>

\* main.py:115-131, 150-155: the screens and the monitors of this start
PlanLayout ==
  /\ launch.stage = "configured"
  /\ launch' =
       [launch EXCEPT
          !.stage = "layout",
          !.displays = _get_available_displays(launch.force_displays,
                                               config.xrandr),
          !.monitors = IF launch.manual_positions # None
                         THEN launch.manual_positions
                         ELSE _get_monitor_layout(config.xrandr)]
  /\ UNCHANGED <<shared, os, calls, locals, hist, trace, config, poll>>

\* main.py:158-200: the command line of each browser
PlanTargets ==
  /\ launch.stage = "layout"
  /\ launch' = [launch EXCEPT
                  !.stage = "planned",
                  !.targets = Targets(launch.displays, launch.monitors)]
  /\ UNCHANGED <<shared, os, calls, locals, hist, trace, config, poll>>

NextLayout ==
  \/ MainConfigure
  \/ PlanLayout
  \/ PlanTargets

SpecLayout == InitLayout /\ [][NextLayout]_vars

\* ------------------------------------------------------------------------
\* The connect of one display as a function of what its endpoint answers
\* (main.py:231-260)

\* What list_tab() does at each of the max_retries polls: it raises, lists
\* nothing, or lists two tabs (which name the poll that listed them).
PollKinds == {"raise", "empty", "tabs"}
Listing(j) == <<<<"tab", j, 1>>, <<"tab", j, 2>>>>
Answer(kind, j) ==
  IF kind = "raise" THEN Raises
  ELSE IF kind = "empty" THEN Lists(<<>>)
  ELSE Lists(Listing(j))

\* The local variable tabs when the loop is entered: unbound for the first
\* display, what the previous display left in it for the second.
TabsBefore == {None, Listing(0)}

NoPoll ==
  [stage |-> "polling", looped |-> None, session |-> None]

InitConnect ==
  /\ Idle
  /\ controller = TRUE
  /\ config \in [answers : {[j \in 1..max_retries |-> Answer(kinds[j], j)] :
                               kinds \in [1..max_retries -> PollKinds]},
                  tabs : TabsBefore]
  /\ launch = NoLaunch
  /\ poll = NoPoll

\* main.py:233-244: the retry loop
ConnectPoll ==
  /\ poll.stage = "polling"
  /\ poll' = [poll EXCEPT
                !.stage = "polled",
                !.looped = RetryLoop(config.answers, 0, config.tabs)]
  /\ UNCHANGED <<shared, os, calls, locals, hist, trace, config, launch>>

\* main.py:246-265: no tab is an error; the first tab is started and
\* stored as the session, unless starting it raises
ConnectClaim ==
  /\ poll.stage = "polled"
  /\ IF poll.looped.raised \/ poll.looped.tabs = <<>>
       THEN poll' = [poll EXCEPT !.stage = "failed"]
       ELSE \/ poll' = [poll EXCEPT !.stage = "connected",
                                    !.session = poll.looped.tabs[1]]
            \/ poll' = [poll EXCEPT !.stage = "failed"]
  /\ UNCHANGED <<shared, os, calls, locals, hist, trace, config, launch>>

NextConnect ==
  \/ ConnectPoll
  \/ ConnectClaim

SpecConnect == InitConnect /\ [][NextConnect]_vars

\* ------------------------------------------------------------------------
\* Properties

\* C1: at every state of a run of requests that do not overlap, the
\* intermediate states of start and stop included, every display that has a
\* session has a process handle.
SessionsHaveHandles == Keys(browsers) \subseteq Keys(chrome_processes)

\* Inside stop: the sessions are cleared, both handles are still there.
InsideStopSessionsCleared ==
  /\ pc["t1"] = "c_clear2"
  /\ ret["t1"] = "stop"
  /\ browsers = <<>>
  /\ Len(chrome_processes) = Len(display_ids)

\* C2: once stop has returned, the session map and the process map are
\* both empty.
StopLeavesBothMapsEmpty ==
  \A t \in Requests :
    (pc[t] = "idle" /\ result[t].op = "stop")
      => (browsers = <<>> /\ chrome_processes = <<>>)

\* The second request of the run is a stop, after a start that connected
\* every display.
StoppedFromFull ==
  /\ pc["t1"] = "idle"
  /\ calls = 2
  /\ result["t1"].op = "stop"
  /\ \A d \in Displays : connRes["t1"][d] = "ok"
  /\ browsers = <<>>
  /\ chrome_processes = <<>>

\* The last start of thread t began with both maps empty; its spawn of
\* display d failed, its spawn of display e succeeded and e was connected.
PartialSpawn(t, d, e) ==
  /\ clean[t]
  /\ spawnRes[t][d] = "fail"
  /\ spawnRes[t][e] = "ok"
  /\ connRes[t][e] = "ok"

\* C3: when one display's spawn fails and the other display's spawn and
\* connect succeed, start returns success, the failed display has neither a
\* handle nor a session, and a stop that follows completes and leaves both
\* maps empty.
OneSpawnFailureIsNotFatal ==
  \A t \in Requests : \A d, e \in Displays :
    (pc[t] = "idle" /\ PartialSpawn(t, d, e)) =>
      /\ result[t].op = "start" =>
           /\ result[t].ok
           /\ HasSession(e) /\ HasProcess(e)
           /\ ~HasSession(d) /\ ~HasProcess(d)
      /\ result[t].op = "stop" =>
           /\ result[t].ok
           /\ browsers = <<>> /\ chrome_processes = <<>>

\* A stop has returned right after a start whose spawn of display 2 failed.
StoppedFromPartialSpawn ==
  /\ pc["t1"] = "idle"
  /\ calls = 2
  /\ result["t1"].op = "stop"
  /\ PartialSpawn("t1", 2, 1)

\* C4: a start called with both maps empty that establishes no session
\* returns failure after the full cleanup: termination was attempted on every
\* process it spawned and both maps are empty; a start that establishes a
\* session returns success with that display's handle and session in place.
StartFailsOnlyWithoutSessions ==
  \A t \in Requests :
    (pc[t] = "idle" /\ result[t].op = "start" /\ clean[t]) =>
      IF \A d \in Displays : connRes[t][d] # "ok"
      THEN /\ ~result[t].ok
           /\ browsers = <<>> /\ chrome_processes = <<>>
           /\ \A d \in Displays :
                spawnRes[t][d] = "ok" => Proc(d, gen[t]) \in termAttempted
      ELSE /\ result[t].ok
           /\ \A d \in Displays :
                connRes[t][d] = "ok" => (HasSession(d) /\ HasProcess(d))

\* A start has failed after it spawned both browsers.
StartFailedAfterSpawns ==
  /\ pc["t1"] = "idle"
  /\ result["t1"].op = "start"
  /\ ~result["t1"].ok
  /\ clean["t1"]
  /\ \A d \in Displays : spawnRes["t1"][d] = "ok"
  /\ \A d \in Displays : Proc(d, gen["t1"]) \in termAttempted

\* C5: the step in which the connect of one display fails changes no
\* session and goes on to the next display of the loop, and at the end of
\* the loop a connect was attempted for every display that has a handle.
ConnectFailureIsLocal ==
  /\ [][\A t \in Requests : \A d \in Displays :
          (connRes[t][d] # "fail" /\ connRes'[t][d] = "fail") =>
            /\ browsers' = browsers
            /\ pc'[t] = "s_connect"
            /\ idx'[t] = idx[t] + 1]_vars
  /\ [](\A t \in Requests :
          (pc[t] = "s_connect" /\ idx[t] > Len(display_ids)) =>
            \A d \in Keys(chrome_processes) : connRes[t][d] \in {"ok", "fail"})

\* A start has returned success: display 1 was connected, then the connect
\* of display 2 failed, and the session of display 1 is in place.
SessionSurvivesLaterFailure ==
  /\ pc["t1"] = "idle"
  /\ result["t1"].op = "start"
  /\ result["t1"].ok
  /\ connRes["t1"][1] = "ok"
  /\ connRes["t1"][2] = "fail"
  /\ HasSession(1)
  /\ ~HasSession(2)

\* The body of cleanup() behind its guard (main.py:322-370).
TeardownBody ==
  {"c_tabs", "c_procs", "c_wait1", "c_wait2", "c_sweep", "c_rm", "c_clear1",
   "c_clear2", "c_reset"}

\* C6: with a stop request and the signal handler running together, at most
\* one call is inside the teardown body at any time.
OneTeardownAtATime ==
  Cardinality({t \in Threads : pc[t] \in TeardownBody}) <= 1

\* C7: when the process has exited on a signal that came while a stop
\* request was in progress and no start has run since, termination was
\* attempted on every process the controller tracks and no profile directory
\* is left without an attempt to remove it.
TeardownDoneAtExit ==
  (exited /\ signalAt) =>
    /\ \A p \in Vals(chrome_processes) : p \in termAttempted
    /\ \A d \in Displays : dirs[d] # "present"

CommandOps == {"navigate", "refresh", "current"}

\* C8: a navigate, refresh or current-url request for a display without a
\* session answers 'Display not found' and issues no command; for a display
\* with a session the command is issued, and a navigate that returns success
\* has handed the url to the browser, whether or not the page has loaded.
CommandNeedsSession ==
  \A t \in Requests :
    (/\ pc[t] = "idle"
     /\ result[t].op \in CommandOps
     /\ result[t] # NotInitialized(result[t].op)) =>
      IF ~Has(browsers, arg[t].d)
      THEN result[t] = NotFound(result[t].op)
      ELSE /\ result[t].cmd
           /\ (result[t].op = "navigate" /\ result[t].ok)
                => page[arg[t].d].req = arg[t].url

\* A navigate has returned success and the page has not loaded yet.
NavigateReturnedBeforeLoad ==
  /\ pc["t1"] = "idle"
  /\ result["t1"].op = "navigate"
  /\ result["t1"].ok
  /\ Has(browsers, arg["t1"].d)
  /\ page[arg["t1"].d].req = arg["t1"].url
  /\ page[arg["t1"].d].cur # arg["t1"].url

\* C9: no step of a navigate, refresh or current-url request changes the
\* session map or the process map.
CommandsKeepBothMaps ==
  [][\A t \in Requests :
       (\/ pc[t] \in {"n_cmd", "r_cmd", "u_cmd"}
        \/ pc'[t] \in {"n_cmd", "r_cmd", "u_cmd"}
        \/ (calls' # calls /\ result'[t].op \in CommandOps)) =>
         (browsers' = browsers /\ chrome_processes' = chrome_processes)]_vars

\* A command was issued and failed, and the display's session is in place.
FailedCommandKeepsSession ==
  /\ pc["t1"] = "idle"
  /\ result["t1"].op \in CommandOps
  /\ ~result["t1"].ok
  /\ result["t1"].cmd
  /\ HasSession(arg["t1"].d)
  /\ HasProcess(arg["t1"].d)

\* C10: the status answer gives every configured display 'inactive' when it
\* has no session, 'active' when it has one and the probe answers, 'error'
\* when it has one and the probe fails; no step of the request changes the
\* controller's state.
StatusIsADerivedView ==
  /\ [](\A t \in Requests :
          (/\ pc[t] = "idle"
           /\ result[t].op = "status"
           /\ result[t].msg = "success") =>
            \A d \in Displays :
              report[t][d].status =
                IF ~HasSession(d) THEN "inactive"
                ELSE IF report[t][d].probe = "ok" THEN "active" ELSE "error")
  /\ [][\A t \in Requests :
          (\/ pc[t] \in {"st_check", "st_in", "st_cmd"}
           \/ pc'[t] \in {"st_check", "st_in", "st_cmd"}
           \/ (calls' # calls /\ result'[t].op = "status")) =>
            UNCHANGED shared]_vars

\* A status answer with one display 'error' and the other 'active'.
StatusErrorAndActive ==
  /\ pc["t1"] = "idle"
  /\ result["t1"].op = "status"
  /\ report["t1"][1].status = "error"
  /\ report["t1"][2].status = "active"
  /\ HasSession(1)
  /\ HasSession(2)

\* C11: whatever fails inside it, a stop request returns normally: the
\* caller is told 'Displays stopped' and both maps are empty.
StopNeverFails ==
  \A t \in Requests :
    (pc[t] = "idle" /\ result[t].op = "stop") =>
      /\ result[t] = Result("stop", TRUE, "Displays stopped", FALSE, "")
      /\ browsers = <<>>
      /\ chrome_processes = <<>>

\* A stop has returned after it closed a session, a process it signalled
\* outlived terminate, kill and the sweep, and a profile directory stayed.
StopReturnedDespiteFailures ==
  /\ pc["t1"] = "idle"
  /\ result["t1"].op = "stop"
  /\ \E j \in 1..Len(log["t1"]) : log["t1"][j].e = "close"
  /\ \E j \in 1..Len(log["t1"]) : log["t1"][j].e = "sweep"
  /\ \E p \in alive : p \in termAttempted
  /\ \E d \in Displays : dirs[d] = "kept"

\* C12: the monitor layout resolver always returns at least one descriptor;
\* when the tool is absent, times out, fails, or prints no word of the
\* shape WxH+X[+Y], the result is the two defaults, 1920x1080 at (0,0) and
\* at (1920,0); every returned descriptor has width > 0 and height > 0.
ResolverContract ==
  (launch.stage \in {"layout", "planned"} /\ launch.manual_positions = None) =>
    LET monitors == launch.monitors
        xrandr == config.xrandr
        IsGeometry(w) ==
          LET p == split(w, Plus)
              q == split(p[1], "x")
          IN /\ Len(p) >= 2
             /\ IsInt(p[2])
             /\ Len(p) >= 3 => IsInt(p[3])
             /\ Len(q) = 2 /\ IsInt(q[1]) /\ IsInt(q[2])
        unusable ==
          \/ xrandr.raises # ""
          \/ xrandr.returncode # 0
          \/ \A line \in {split(xrandr.stdout, Newline)[j] :
                            j \in 1..Len(split(xrandr.stdout, Newline))} :
               \A k \in 1..Len(words(line)) : ~IsGeometry(words(line)[k])
        place(m) == <<m.width, m.height, m.x, m.y>>
    IN /\ Len(monitors) >= 1
       /\ unusable => /\ Len(monitors) = 2
                      /\ place(monitors[1]) = <<1920, 1080, 0, 0>>
                      /\ place(monitors[2]) = <<1920, 1080, 1920, 0>>
       /\ \A j \in 1..Len(monitors) :
            monitors[j].width > 0 /\ monitors[j].height > 0

\* C13: in single mode every browser window is planned at position (0,0)
\* with one and the same size, whatever monitors were found.
SingleModeSharesOrigin ==
  (/\ launch.stage = "planned"
   /\ launch.positioning_mode = "single"
   /\ launch.manual_positions = None) =>
    \A j \in 1..Len(launch.targets) :
      /\ launch.targets[j].x = 0
      /\ launch.targets[j].y = 0
      /\ launch.targets[j].width = launch.targets[1].width
      /\ launch.targets[j].height = launch.targets[1].height

\* C14: in extended mode with two monitors found, the plan has two targets
\* on one screen, and the i-th window has the position and the size of the
\* i-th monitor.
ExtendedFollowsMonitors ==
  (/\ launch.stage = "planned"
   /\ launch.positioning_mode = "extended"
   /\ launch.manual_positions = None
   /\ Len(launch.monitors) = 2) =>
    /\ Len(launch.targets) = 2
    /\ launch.targets[1].display = launch.targets[2].display
    /\ \A j \in 1..2 :
         /\ launch.targets[j].x = launch.monitors[j].x
         /\ launch.targets[j].y = launch.monitors[j].y
         /\ launch.targets[j].width = launch.monitors[j].width
         /\ launch.targets[j].height = launch.monitors[j].height

ExtendedTwoMonitorsPlanned ==
  /\ launch.stage = "planned"
  /\ launch.positioning_mode = "extended"
  /\ launch.manual_positions = None
  /\ Len(launch.monitors) = 2
  /\ launch.monitors[1].name = <<"A">>
  /\ launch.monitors[2].name = <<"B">>
  /\ launch.targets[1].x = 0
  /\ launch.targets[2].x = 1920
  /\ launch.targets[1].port # launch.targets[2].port

\* C15: in the launch plan the port of the i-th display is 9222 + i (i from
\* 0), so ports increase strictly; no two displays have the same port or the
\* same profile directory; and the session stored for display d is a tab of
\* a browser that listens on the port of display d.
PortsFollowDisplays ==
  launch.stage = "planned" =>
    /\ \A j \in 1..Len(launch.targets) :
         launch.targets[j].port = 9222 + (j - 1)
    /\ \A j, k \in 1..Len(launch.targets) :
         j < k => /\ launch.targets[j].port < launch.targets[k].port
                  /\ launch.targets[j].user_data_dir
                       # launch.targets[k].user_data_dir
    /\ \A j \in 1..Len(browsers) :
         LET d == browsers[j].k
             target == launch.targets[CHOOSE n \in 1..Len(launch.targets) :
                                        launch.targets[n].display_id = d]
         IN ListensOn(browsers[j].v.p) = target.port

BothSessionsAfterRestart ==
  /\ launch.stage = "planned"
  /\ Len(browsers) = Len(display_ids)
  /\ \E j \in 1..Len(browsers) : browsers[j].v.g >= 2
  /\ \E q \in alive : q[2] = 1
  /\ pc["t1"] = "idle"

\* C16: in a start call, a browser of display d is spawned only after the
\* kill of the old instances and, after that, the deletion of the profile
\* directory of d; and neither of the two happens again once the first
\* browser of the call has been spawned.
StartOrder ==
  \A t \in Requests :
    \A n \in 1..Len(log[t]) :
      log[t][n].e = "spawn" =>
        /\ \E i, j \in 1..n :
             /\ i < j
             /\ log[t][i].e = "kill_old"
             /\ log[t][j] = Event("rm_profile", log[t][n].d)
        /\ \A m \in n..Len(log[t]) :
             log[t][m].e \notin {"kill_old", "rm_profile"}

RestartSpawnedBoth ==
  /\ gen["t1"] >= 2
  /\ Len(log["t1"]) = 5
  /\ log["t1"][1].e = "kill_old"
  /\ log["t1"][Len(log["t1"])] = Event("spawn", display_ids[2])
  /\ Len(chrome_processes) = 2

\* C17: a cleanup closes the sessions, then goes through the process
\* handles, then makes the sweep, then removes the profile directories,
\* then clears the session map and then the handle map; while handles are
\* being terminated every session of the map has had its close; the maps
\* are cleared only after the sweep.
StopOrder ==
  \A t \in Requests :
    LET after(e) ==
          CASE e = "close" -> {"close", "poll", "sweep"}
            [] e = "poll" -> {"poll", "sweep"}
            [] e = "sweep" -> {"rm_profiles"}
            [] e = "rm_profiles" -> {"clear_sessions"}
            [] e = "clear_sessions" -> {"clear_handles"}
            [] OTHER -> {"close", "poll", "sweep", "kill_old", "rm_profile",
                         "spawn"}
    IN /\ \A n \in 1..Len(log[t]) :
            IF n = 1
              THEN log[t][n].e \in after("")
              ELSE log[t][n].e \in after(log[t][n - 1].e)
       /\ pc[t] \in {"c_procs", "c_wait1", "c_wait2", "c_sweep", "c_rm",
                     "c_clear1"}
            => Vals(browsers) \subseteq closed
       /\ pc[t] \in {"c_set", "c_tabs", "c_procs", "c_wait1", "c_wait2",
                     "c_sweep"}
            => \/ Len(log[t]) = 0
               \/ log[t][Len(log[t])].e \notin {"clear_sessions", "rm_profiles"}

StoppedInOrder ==
  /\ pc["t1"] = "idle"
  /\ result["t1"].op = "stop"
  /\ [n \in 1..Len(log["t1"]) |-> log["t1"][n].e]
       = <<"close", "close", "poll", "poll", "sweep", "rm_profiles",
           "clear_sessions", "clear_handles">>

\* C18: to a tracked process that runs, terminate is sent first; kill is
\* sent only after terminate and only to a process that is still running
\* when the first wait is over; when the second wait is over the loop goes
\* on to the next handle, whatever the process did, and nothing is raised.
TerminateEscalates ==
  [][\A t \in Requests :
       /\ (sent'[t] # sent[t] /\ sent'[t] # <<>>) =>
            \/ /\ sent[t] = <<>>
               /\ sent'[t] = <<"terminate">>
               /\ cur'[t] \in alive
            \/ /\ sent[t] = <<"terminate">>
               /\ sent'[t] = <<"terminate", "kill">>
               /\ cur'[t] = cur[t]
               /\ cur[t] \in alive'
       /\ (pc[t] = "c_wait1" /\ pc'[t] # "c_wait1" /\ cur[t] \notin alive') =>
            /\ sent'[t] = <<>>
            /\ pc'[t] = "c_procs"
       /\ (pc[t] = "c_wait2" /\ pc'[t] # "c_wait2") =>
            /\ pc'[t] = "c_procs"
            /\ idx'[t] = idx[t] + 1
            /\ result'[t] = result[t]
            /\ sent'[t] = <<>>
            /\ chrome_processes' = chrome_processes]_vars

KillSentToSecondProcess ==
  /\ pc["t1"] = "c_wait2"
  /\ sent["t1"] = <<"terminate", "kill">>
  /\ idx["t1"] = 2
  /\ cur["t1"] \in alive
  /\ chrome_processes[1].v \notin alive

\* C19: a handle is put into the process map only by the step that spawned
\* its process, and a handle leaves the map only when its process runs no
\* more: the handle of a process that is still running is never dropped.
HandleLifecycle ==
  [][/\ \A q \in Vals(chrome_processes') \ Vals(chrome_processes) :
          q \in alive' \ alive
     /\ \A q \in Vals(chrome_processes) \ Vals(chrome_processes') :
          q \notin alive']_vars

\* C20: the connect of a display polls the listing at most 10 times; it
\* stops at the first poll that lists at least one tab, and the session it
\* stores is the first tab of that listing; when no poll lists a tab (each
\* raises or lists nothing) the connect fails and no session is stored.
ConnectPollsUntilListed ==
  LET listed == {j \in 1..max_retries :
                   ~config.answers[j].raise /\ config.answers[j].tabs # <<>>}
      first == CHOOSE j \in listed : \A k \in listed : j <= k
  IN /\ poll.stage # "polling" =>
          /\ poll.looped.attempts <= 10
          /\ listed # {} =>
               /\ poll.looped.attempts = first
               /\ ~poll.looped.raised
               /\ poll.looped.tabs = config.answers[first].tabs
     /\ poll.stage = "connected" =>
          /\ listed # {}
          /\ poll.session = config.answers[first].tabs[1]
     /\ (poll.stage \in {"failed", "connected"} /\ listed = {}) =>
          /\ poll.stage = "failed"
          /\ poll.session = None

ConnectedAtLastPoll ==
  /\ poll.stage = "connected"
  /\ poll.looped.attempts = max_retries
  /\ config.answers[1].raise
  /\ ~config.answers[2].raise
  /\ config.answers[max_retries - 1].raise
  /\ config.tabs # None
  /\ poll.session = <<"tab", max_retries, 1>>

\* C21: the lines of the tool's output that are well formed (name,
\* "connected", "primary" or not, WxH+X+Y) give their descriptors in the
\* result, in their order, whatever other lines the output has.
MalformedLinesAreSkipped ==
  (launch.stage \in {"layout", "planned"} /\ launch.manual_positions = None) =>
    LET xrandr == config.xrandr
        lines == IF xrandr.raises = "" /\ xrandr.returncode = 0
                   THEN split(xrandr.stdout, Newline) ELSE <<>>
        geometry(w) == IF w[3] = Primary THEN w[4] ELSE w[3]
        shaped(g) ==
          /\ Len(split(g, Plus)) = 3
          /\ IsInt(split(g, Plus)[2])
          /\ IsInt(split(g, Plus)[3])
          /\ Len(split(split(g, Plus)[1], "x")) = 2
          /\ IsInt(split(split(g, Plus)[1], "x")[1])
          /\ IsInt(split(split(g, Plus)[1], "x")[2])
        wellFormed(line) ==
          LET w == words(line) IN
          /\ Len(w) >= 3
          /\ w[2] = Connected
          /\ w[3] = Primary => Len(w) >= 4
          /\ \A k \in 1..Len(w) : w[k] = Primary => k = 3
          /\ shaped(geometry(w))
        descriptor(line) ==
          LET w == words(line)
              g == split(geometry(w), Plus)
          IN Monitor(w[1], int(split(g[1], "x")[1]), int(split(g[1], "x")[2]),
                     int(g[2]), int(g[3]))
        good == SelectSeq(lines, wellFormed)
    IN \E f \in [1..Len(good) -> 1..Len(launch.monitors)] :
         /\ \A j, k \in 1..Len(good) : j < k => f[j] < f[k]
         /\ \A j \in 1..Len(good) :
              launch.monitors[f[j]] = descriptor(good[j])

\* C22: a start call and a stop call, once begun, return: the request
\* thread that is inside start_chrome_instances or cleanup is idle again
\* later, whatever the processes, the endpoints and the tools do.
StartAndStopReturn ==
  \A t \in {"t1"} :
    (pc[t] \in {"s_pkill", "s_rmdirs", "s_spawn", "s_connect", "s_tab",
                "s_except", "c_guard", "c_set", "c_tabs", "c_procs",
                "c_wait1", "c_wait2", "c_sweep", "c_rm", "c_clear1",
                "c_clear2", "c_reset", "blocked"})
      ~> (pc[t] = "idle")

\* C23: when a stop request has finished its teardown while a start call
\* was in progress, and both requests have returned, every browser that the
\* start call spawned and that still runs has its handle in the process
\* map, and every session of the session map has a handle for its display.
NoLeakAfterStopDuringStart ==
  \A t \in Requests :
    (/\ stoppedDuring > 0
     /\ gen[t] = stoppedDuring
     /\ result[t].op = "start"
     /\ \A u \in Requests : pc[u] = "idle") =>
      /\ \A q \in alive : q[2] = gen[t] => q \in Vals(chrome_processes)
      /\ Keys(browsers) \subseteq Keys(chrome_processes)

\* C24: when a start call has returned success, every session of the
\* session map was stored by that call and is a tab of a browser that the
\* call spawned, and every handle of the process map is of that call.
StartSuccessIsFresh ==
  \A t \in Requests :
    (pc[t] = "idle" /\ result[t].op = "start" /\ result[t].ok) =>
      /\ \A j \in 1..Len(browsers) :
           /\ browsers[j].v.g = gen[t]
           /\ browsers[j].v.p[2] = gen[t]
      /\ \A j \in 1..Len(chrome_processes) :
           chrome_processes[j].v[2] = gen[t]

\* C25: a navigate, refresh or current-url request never sends its command
\* to a session on which a cleanup has already called stop().
CommandsAvoidClosedSessions ==
  [][\A t \in Requests :
       (/\ pc[t] \in {"n_cmd", "r_cmd", "u_cmd"}
        /\ pc'[t] = "idle"
        /\ result'[t].cmd) =>
         Get(browsers, arg[t].d) \notin closed]_vars

\* C26: when a stop request returns while no start call is in progress, both
\* maps are empty, every handle the process map held has had its termination
\* attempted, and no other teardown is still in progress.
StopReturnsAfterTeardown ==
  [][\A t \in Requests :
       (/\ pc[t] \in {"c_guard", "c_reset"}
        /\ ret[t] = "stop"
        /\ pc'[t] = "idle"
        /\ \A u \in Requests : pc[u] \notin {"s_pkill", "s_rmdirs", "s_spawn",
                                              "s_connect", "s_tab",
                                              "s_except"}) =>
         /\ browsers' = <<>>
         /\ chrome_processes' = <<>>
         /\ Vals(chrome_processes) \subseteq termAttempted
         /\ \A u \in Requests \ {t} :
              pc[u] \notin {"c_set", "c_tabs", "c_procs", "c_wait1",
                            "c_wait2", "c_sweep", "c_rm", "c_clear1",
                            "c_clear2", "c_reset"}]_vars
====
